---- MODULE Spec2Model ----
(***************************************************************************)
(* The in-memory todo store of todo.controller.ts: the module-level array  *)
(* `todos`, the counter `nextId`, and the five handlers of TodoController. *)
(* Each handler is one atomic action; the request it serves and the value  *)
(* it returns (or the exception it throws) are kept in `request` and       *)
(* `response`.                                                             *)
(*                                                                         *)
(* Strings that the code parses (the :id route parameter) are sequences of *)
(* one-character strings, so that Number(id) is computed, not assumed.     *)
(* An optional DTO field is a set: {} when the field is undefined, {v}     *)
(* when it carries v.                                                      *)
(***************************************************************************)
EXTENDS Integers, Sequences, FiniteSets, TLC

\* Largest id the counter may hand out in the model (creates stop there).
MaxId == 4

\* The three records the array literal starts with.
SeedTodos ==
  << [id |-> 1, description |-> "Buy groceries", isDone |-> FALSE],
     [id |-> 2, description |-> "Finish NestJS project", isDone |-> FALSE],
     [id |-> 3, description |-> "Walk the dog", isDone |-> TRUE] >>

\* Initial value of the counter.
SeedNextId == 4

\* todos, nextId : the module-level array and counter.
\* request        : the handler last called, with its route parameter and body.
\* response       : what that call returned or threw.
\* createLog      : history of the ids createTodo has returned, in call order.
\* deletedIds     : history of the ids a deleteTodo looked up, found and removed.
VARIABLES todos, nextId, request, response, createLog, deletedIds

vars == <<todos, nextId, request, response, createLog, deletedIds>>

----------------------------------------------------------------------------
\* Inputs

Digits == <<"0", "1", "2", "3", "4", "5", "6", "7", "8", "9">>

DigitChars == { Digits[k] : k \in 1..10 }

IsDigit(c) == c \in DigitChars

DigitValues == [c \in DigitChars |-> (CHOOSE k \in 1..10 : Digits[k] = c) - 1]

DigitValue(c) == DigitValues[c]

\* Decimal rendering of 0 <= n < 100, as the client would put it in the URL.
Decimal(n) ==
  IF n < 10 THEN << Digits[n + 1] >>
  ELSE << Digits[(n \div 10) + 1], Digits[(n % 10) + 1] >>

\* Route parameters tried: every id the counter can hand out, the empty
\* string and a non-numeric string.
IdInputs == { Decimal(n) : n \in 1..MaxId } \cup { <<>>, <<"a">> }

\* Description texts a client sends.
Descriptions == {"", "x"}

NoDto == [isNull |-> TRUE, description |-> {}, isDone |-> {}]

\* Bodies of POST /todos: no body, no description, "" and a real text.
CreateDtos ==
  {NoDto} \cup
  { [isNull |-> FALSE, description |-> d, isDone |-> {}] :
      d \in {{}} \cup { {s} : s \in Descriptions } }

\* Bodies of PUT /todos/:id: each field absent or present.
UpdateDtos ==
  { [isNull |-> FALSE, description |-> d, isDone |-> b] :
      d \in {{}} \cup { {s} : s \in Descriptions },
      b \in {{}, {TRUE}, {FALSE}} }

----------------------------------------------------------------------------
\* JavaScript primitives the handlers rely on

NaN == [nan |-> TRUE, val |-> 0]

RECURSIVE DigitsValue(_)
DigitsValue(s) ==
  IF s = <<>> THEN 0
  ELSE 10 * DigitsValue(SubSeq(s, 1, Len(s) - 1)) + DigitValue(s[Len(s)])

\* Number(id) on the strings of IdInputs: "" is 0, a run of digits is its
\* decimal value, anything else is NaN.
ToNumber(s) ==
  IF s = <<>> THEN [nan |-> FALSE, val |-> 0]
  ELSE IF \A k \in 1..Len(s) : IsDigit(s[k])
       THEN [nan |-> FALSE, val |-> DigitsValue(s)]
       ELSE NaN

\* t.id === todoId ; NaN is equal to nothing.
StrictEquals(tid, num) == ~num.nan /\ tid = num.val

\* todos.findIndex(t => t.id === todoId), zero-based, -1 when none matches.
FindIndex(arr, num) ==
  IF num.nan \/ \A k \in 1..Len(arr) : ~StrictEquals(arr[k].id, num)
  THEN -1
  ELSE (CHOOSE k \in 1..Len(arr) :
          /\ StrictEquals(arr[k].id, num)
          /\ \A j \in 1..(k - 1) : ~StrictEquals(arr[j].id, num)) - 1

Min(a, b) == IF a < b THEN a ELSE b
Max(a, b) == IF a > b THEN a ELSE b

\* A plausible slip: splice(start) without the delete count drops the tail.
SpliceToEnd(arr, start, deleteCount) ==
  LET len  == Len(arr)
      from == IF start < 0 THEN Max(len + start, 0) ELSE Min(start, len)
  IN  SubSeq(arr, 1, from)

\* Array.prototype.splice(start, deleteCount) without inserted items: a
\* negative start counts from the end of the array.
Splice(arr, start, deleteCount) ==
  LET len  == Len(arr)
      from == IF start < 0 THEN Max(len + start, 0) ELSE Min(start, len)
      cnt  == Min(Max(deleteCount, 0), len - from)
  IN  SubSeq(arr, 1, from) \o SubSeq(arr, from + cnt + 1, len)

----------------------------------------------------------------------------
\* Responses

\* A plausible slip: the list is handed out in reverse order.
ListResponseReversed(arr) ==
  [kind |-> "list",
   todos |-> [k \in 1..Len(arr) |-> arr[Len(arr) + 1 - k]],
   message |-> <<>>]

NoResponse   == [kind |-> "none", todos |-> <<>>, message |-> <<>>]
NullResponse == [kind |-> "null", todos |-> <<>>, message |-> <<>>]
ListResponse(arr) == [kind |-> "list", todos |-> arr, message |-> <<>>]
TodoResponse(t)   == [kind |-> "todo", todos |-> <<t>>, message |-> <<>>]
BadRequestException ==
  [kind |-> "BadRequestException", todos |-> <<>>, message |-> <<>>]
\* {message: `Todo with ID ${id} successfully deleted.`}
DeletedMessage(id) == [kind |-> "message", todos |-> <<>>, message |-> id]

Request(op, id, dto) == [op |-> op, id |-> id, dto |-> dto]

----------------------------------------------------------------------------
Init ==
  /\ todos = SeedTodos
  /\ nextId = SeedNextId
  /\ request = Request("init", <<>>, NoDto)
  /\ response = NoResponse
  /\ createLog = <<>>
  /\ deletedIds = {}

\* GET /todos
getAllTodos ==
  /\ request' = Request("getAllTodos", <<>>, NoDto)
  /\ response' = ListResponse(todos)
  /\ UNCHANGED <<todos, nextId, createLog, deletedIds>>

\* GET /todos/:id
getTodoById(id) ==
  \E todo \in {FindIndex(todos, ToNumber(id))} :
      /\ request' = Request("getTodoById", id, NoDto)
      /\ response' = IF todo = -1 THEN NullResponse
                     ELSE TodoResponse(todos[todo + 1])
      /\ UNCHANGED <<todos, nextId, createLog, deletedIds>>

\* A plausible slip: only an undefined description is refused.
CreateRejectedOnlyUndefined(dto) == dto.isNull \/ dto.description = {}

\* !createTodoDto || !createTodoDto.description
CreateRejected(dto) ==
  dto.isNull \/ dto.description = {} \/ dto.description = {""}

\* A plausible slip: the id is derived from the collection size.
NewIdFromLength(arr, counter) == Len(arr) + 1

\* A plausible slip: the id is one more than the largest id in the collection.
NewIdFromMax(arr, counter) ==
  IF arr = <<>> THEN 1
  ELSE (CHOOSE m \in { arr[k].id : k \in 1..Len(arr) } :
          \A k \in 1..Len(arr) : arr[k].id <= m) + 1

\* A plausible slip: ++nextId, the counter's value after the increment.
NewIdPreIncrement(arr, counter) == counter + 1

\* The id given to the new record: the counter's value (nextId++).
NewId(arr, counter) == counter

\* A plausible slip: unshift instead of push puts the record first.
Unshift(arr, item) == <<item>> \o arr

\* todos.push(newTodo)
Push(arr, item) == Append(arr, item)

\* POST /todos
createTodo(dto) ==
  /\ (CreateRejected(dto) \/ nextId <= MaxId)
  /\ request' = Request("createTodo", <<>>, dto)
  /\ IF CreateRejected(dto)
     THEN /\ response' = BadRequestException
          /\ UNCHANGED <<todos, nextId, createLog, deletedIds>>
     ELSE LET newTodo == [id |-> NewId(todos, nextId),
                          description |-> CHOOSE s \in dto.description : TRUE,
                          isDone |-> FALSE]
          IN  /\ nextId' = nextId + 1
              /\ todos' = Push(todos, newTodo)
              /\ response' = TodoResponse(newTodo)
              /\ createLog' = Append(createLog, newTodo.id)
              /\ UNCHANGED deletedIds

\* A plausible slip: the description is assigned whether or not it was sent.
UpdatedDescriptionAlways(existingTodo, dto) ==
  IF dto.description # {} THEN CHOOSE s \in dto.description : TRUE
  ELSE ""

\* if (updateTodoDto.description !== undefined) existingTodo.description = ...
UpdatedDescription(existingTodo, dto) ==
  IF dto.description # {} THEN CHOOSE s \in dto.description : TRUE
  ELSE existingTodo.description

\* existingTodo.isDone = true, whatever the DTO carries.
UpdatedIsDone(existingTodo, dto) == TRUE

\* A plausible slip: the changed copy is pushed instead of written in place.
AssignAtAsNew(arr, index, item) == Append(arr, item)

\* existingTodo = todos[todoIndex] is changed in place: the array keeps its
\* length and the record its slot.
AssignAt(arr, index, item) == [arr EXCEPT ![index + 1] = item]

\* PUT /todos/:id
\* The body is recorded in `request` once the handler gets to read it, that
\* is on the path where the lookup succeeded.
updateTodo(id, dto) ==
  \E todoIndex \in {FindIndex(todos, ToNumber(id))} :
      /\ request' = Request("updateTodo", id,
                            IF todoIndex = -1 THEN NoDto ELSE dto)
      /\ IF todoIndex = -1
         THEN /\ response' = NullResponse
              /\ UNCHANGED <<todos, nextId, createLog, deletedIds>>
         ELSE LET existingTodo == todos[todoIndex + 1]
                  updated == [id |-> existingTodo.id,
                              description |-> UpdatedDescription(existingTodo, dto),
                              isDone |-> UpdatedIsDone(existingTodo, dto)]
              IN  /\ todos' = AssignAt(todos, todoIndex, updated)
                  /\ response' = TodoResponse(updated)
                  /\ UNCHANGED <<nextId, createLog, deletedIds>>

\* DELETE /todos/:id
deleteTodo(id) ==
  \E todoIndex \in {FindIndex(todos, ToNumber(id))} :
      /\ request' = Request("deleteTodo", id, NoDto)
      /\ todos' = Splice(todos, todoIndex, 1)
      /\ response' = DeletedMessage(id)
      /\ deletedIds' = IF todoIndex = -1 THEN deletedIds
                       ELSE deletedIds \cup {todos[todoIndex + 1].id}
      /\ UNCHANGED <<nextId, createLog>>

\* The bodies tried with a PUT: every body when the id is found; one body
\* when it is not, where the handler returns before reading it.
UpdateDtosFor(id) ==
  IF FindIndex(todos, ToNumber(id)) = -1 THEN {NoDto} ELSE UpdateDtos

Next ==
  \/ getAllTodos
  \/ \E id \in IdInputs : getTodoById(id)
  \/ \E dto \in CreateDtos : createTodo(dto)
  \/ \E id \in IdInputs : \E dto \in UpdateDtosFor(id) : updateTodo(id, dto)
  \/ \E id \in IdInputs : deleteTodo(id)

Spec == Init /\ [][Next]_vars

----------------------------------------------------------------------------
\* Rendering layer (TodoListComponent.tsx)

\* todos.map((todo, index) => <TodoItem key={index} todo={todo} />): the
\* rendered children with their keys; nothing is rendered for an empty list.
TodoList(arr) == [k \in 1..Len(arr) |-> [key |-> k - 1, todo |-> arr[k]]]

----------------------------------------------------------------------------
\* Derived views used by the properties

Ids(arr) == { arr[k].id : k \in 1..Len(arr) }

\* The id the request's route parameter resolves to in arr, as findIndex does.
Resolves(arr, id) == FindIndex(arr, ToNumber(id)) # -1

Position(arr, id) == FindIndex(arr, ToNumber(id)) + 1

----------------------------------------------------------------------------
\* Identity

\* C1: in every reachable state the ids of the records in the collection are
\* pairwise distinct.
C1_IdsPairwiseDistinct ==
  \A i, j \in 1..Len(todos) : i # j => todos[i].id # todos[j].id

\* A create has just succeeded in a store from which a record was removed.
C1_CreateAfterRemoval ==
  /\ request.op = "createTodo"
  /\ response.kind = "todo"
  /\ Len(todos) < Len(SeedTodos) + Len(createLog)
  /\ Len(todos) >= 2

C9_DeletedIdsStayAbsent ==
  \A i \in deletedIds :
    /\ i \notin Ids(todos)
    /\ (request.op = "getTodoById" /\ ToNumber(request.id) = [nan |-> FALSE, val |-> i])
          => response.kind = "null"

\* Record 3 was deleted, a create succeeded afterwards, and get("3") then
\* returned null.
C9_GetAfterDeleteAndCreate ==
  /\ 3 \in deletedIds
  /\ createLog # <<>>
  /\ request.op = "getTodoById"
  /\ request.id = <<"3">>
  /\ response.kind = "null"

----------------------------------------------------------------------------
\* Update

\* C2: an update of an existing record whose body has no isDone leaves the
\* record's isDone as it was, and an update with an empty body leaves the
\* whole record as it was.
C2_OmittedIsDoneKept ==
  [][ (/\ request'.op = "updateTodo"
       /\ Resolves(todos, request'.id)
       /\ request'.dto.isDone = {})
      => LET p == Position(todos, request'.id)
         IN  /\ todos'[p].isDone = todos[p].isDone
             /\ request'.dto.description = {} => todos'[p] = todos[p] ]_vars

\* C5: after an update of an existing record whose body carries isDone = b,
\* the record's isDone is b.
C5_IsDoneTakenFromBody ==
  (/\ request.op = "updateTodo"
   /\ response.kind = "todo"
   /\ request.dto.isDone # {})
  => \A k \in 1..Len(todos) :
       StrictEquals(todos[k].id, ToNumber(request.id))
         => todos[k].isDone \in request.dto.isDone

\* C6: an update of an existing record whose body has no description leaves
\* the record's description (and id) as they were.
C6_OmittedDescriptionKept ==
  [][ (/\ request'.op = "updateTodo"
       /\ Resolves(todos, request'.id)
       /\ request'.dto.description = {})
      => LET p == Position(todos, request'.id)
         IN  /\ todos'[p].description = todos[p].description
             /\ todos'[p].id = todos[p].id ]_vars

\* updateTodo("1", {isDone: true}) has returned record 1 with its seed text.
C6_IsDoneOnlyUpdate ==
  /\ request.op = "updateTodo"
  /\ request.id = <<"1">>
  /\ request.dto.description = {}
  /\ request.dto.isDone = {TRUE}
  /\ response.kind = "todo"
  /\ response.todos[1] = [id |-> 1, description |-> "Buy groceries", isDone |-> TRUE]
  /\ todos[1] = response.todos[1]

\* C7: in every reachable state every record has a non-empty description.
C7_DescriptionsNonEmpty ==
  \A k \in 1..Len(todos) : todos[k].description # ""

----------------------------------------------------------------------------
\* Delete

\* C3: a delete whose id resolves to no record leaves the collection and
\* the counter as they were.
C3_UnresolvedDeleteRemovesNothing ==
  [][ (request'.op = "deleteTodo" /\ ~Resolves(todos, request'.id))
      => (todos' = todos /\ nextId' = nextId) ]_vars

\* C8: a delete whose id resolves to a record leaves the collection without
\* that record and with every other record unchanged, in the same order.
C8_DeleteRemovesExactlyTheRecord ==
  [][ (request'.op = "deleteTodo" /\ Resolves(todos, request'.id))
      => LET target == ToNumber(request'.id).val
             Kept(t) == t.id # target
         IN  /\ todos' = SelectSeq(todos, Kept)
             /\ Len(todos') = Len(todos) - 1 ]_vars

\* Seed 1,2,3 and deleteTodo("2") has just left records 1 and 3, in order.
C8_DeletedTheMiddleRecord ==
  /\ request.op = "deleteTodo"
  /\ request.id = <<"2">>
  /\ deletedIds = {2}
  /\ createLog = <<>>
  /\ Len(todos) = 2
  /\ todos[1].id = 1
  /\ todos[2].id = 3

----------------------------------------------------------------------------
\* Create

\* C10: a create with no body, no description or an empty description ends
\* in BadRequestException and leaves the collection and the counter as they
\* were.
C10_RejectedCreateChangesNothing ==
  [][ (/\ request'.op = "createTodo"
       /\ (request'.dto.isNull \/ request'.dto.description \subseteq {""}))
      => /\ response'.kind = "BadRequestException"
         /\ todos' = todos
         /\ nextId' = nextId ]_vars

\* create({description: ""}) was refused on the seed store; the counter is
\* still 4.
C10_EmptyDescriptionRefused ==
  /\ request.op = "createTodo"
  /\ ~request.dto.isNull
  /\ request.dto.description = {""}
  /\ response.kind = "BadRequestException"
  /\ todos = SeedTodos
  /\ nextId = SeedNextId

\* C11: a create that succeeds appends exactly one record, made of the
\* counter's value before the call, the text sent and isDone = false, at the
\* end of the collection, returns that record, leaves the records that were
\* there as they were and in their order, and advances the counter by one.
C11_CreateAppendsOneRecord ==
  [][ (request'.op = "createTodo" /\ response'.kind = "todo")
      => LET n == Len(todos) IN
         /\ Len(todos') = n + 1
         /\ SubSeq(todos', 1, n) = todos
         /\ todos'[n + 1].id = nextId
         /\ request'.dto.description = {todos'[n + 1].description}
         /\ todos'[n + 1].isDone = FALSE
         /\ response'.todos = << todos'[n + 1] >>
         /\ nextId' = nextId + 1 ]_vars

\* create({description: "x"}) on the seed store has returned record 4, which
\* is now the last of four records.
C11_CreatedOnSeedStore ==
  /\ request.op = "createTodo"
  /\ request.dto.description = {"x"}
  /\ response.kind = "todo"
  /\ todos = SeedTodos \o << [id |-> 4, description |-> "x", isDone |-> FALSE] >>
  /\ response.todos = << todos[4] >>
  /\ nextId = 5

----------------------------------------------------------------------------
\* Failure outcomes

\* An id string the endpoint layer accepts as an identifier: a non-empty run
\* of decimal digits.
ValidIdentifier(s) == s # <<>> /\ \A k \in 1..Len(s) : IsDigit(s[k])

LookupOps == {"getTodoById", "updateTodo", "deleteTodo"}

\* C12: a get, update or delete whose id is a valid identifier that matches
\* no record ends in a NotFound failure, never in null or in a success
\* message.
C12_MissingIdSignalsNotFound ==
  [][ (/\ request'.op \in LookupOps
       /\ ValidIdentifier(request'.id)
       /\ ~Resolves(todos, request'.id))
      => response'.kind = "NotFoundException" ]_vars

\* C13: a get, update or delete whose id string is not a valid identifier
\* ends in an InvalidIdentifier failure and leaves the collection and the
\* counter as they were.
C13_UnparseableIdRefused ==
  [][ (request'.op \in LookupOps /\ ~ValidIdentifier(request'.id))
      => /\ response'.kind = "InvalidIdentifier"
         /\ todos' = todos
         /\ nextId' = nextId ]_vars

----------------------------------------------------------------------------
\* Reads

\* C14: a list or a get leaves the collection and the counter as they were,
\* and a list returns every record of the collection in its current order.
C14_ReadsHaveNoSideEffect ==
  [][ (request'.op \in {"getAllTodos", "getTodoById"})
      => /\ todos' = todos
         /\ nextId' = nextId
         /\ request'.op = "getAllTodos"
              => (response'.kind = "list" /\ response'.todos = todos) ]_vars

\* After record 2 was deleted and a record created, a list has returned
\* records 1, 3 and 4 in that order.
C14_ListAfterDeleteAndCreate ==
  /\ request.op = "getAllTodos"
  /\ response.kind = "list"
  /\ response.todos = todos
  /\ deletedIds = {2}
  /\ Len(todos) = 3
  /\ todos[1].id = 1
  /\ todos[2].id = 3
  /\ todos[3].id = 4

----------------------------------------------------------------------------
\* Rendering

\* C16: in the renders of the collection before and after any step, a
\* record present in both carries the same key, and two different records
\* never carry the same key.
C16_KeysFollowTheRecord ==
  [][ LET before == TodoList(todos)
          after  == TodoList(todos')
      IN  \A i \in 1..Len(before), j \in 1..Len(after) :
            (before[i].todo.id = after[j].todo.id)
              <=> (before[i].key = after[j].key) ]_vars

----------------------------------------------------------------------------
\* Structure

\* C17: an update leaves the length of the collection, the id and the slot
\* of every record, every record other than the one its id resolves to, and
\* the counter as they were; when its id resolves to no record it leaves the
\* whole collection as it was.
C17_UpdateKeepsStructure ==
  [][ (request'.op = "updateTodo")
      => \E p \in {Position(todos, request'.id)} :
           /\ Len(todos') = Len(todos)
           /\ nextId' = nextId
           /\ \A k \in 1..Len(todos) :
                /\ todos'[k].id = todos[k].id
                /\ k # p => todos'[k] = todos[k]
           /\ p = 0 => todos' = todos ]_vars

\* updateTodo("2", {description: "x"}) on the seed store has changed record 2
\* in its slot and nothing else.
C17_UpdatedTheMiddleRecord ==
  /\ request.op = "updateTodo"
  /\ request.id = <<"2">>
  /\ request.dto.description = {"x"}
  /\ Len(todos) = 3
  /\ todos[1] = SeedTodos[1]
  /\ todos[2] = [id |-> 2, description |-> "x", isDone |-> TRUE]
  /\ todos[3] = SeedTodos[3]
  /\ nextId = SeedNextId

CounterAboveIds(arr, counter) == \A k \in 1..Len(arr) : arr[k].id < counter

\* C18: the counter is above the id of every record in every state, it
\* never decreases, and only a create that succeeds changes it.
C18_CounterAboveIdsAndMonotonic ==
  [][ /\ CounterAboveIds(todos, nextId)
      /\ CounterAboveIds(todos', nextId')
      /\ nextId' >= nextId
      /\ nextId' # nextId
           => (request'.op = "createTodo" /\ response'.kind = "todo") ]_vars

\* A create has just moved the counter to 5 and record 4 is in the collection.
C18_CounterAfterCreate ==
  /\ request.op = "createTodo"
  /\ response.kind = "todo"
  /\ nextId = SeedNextId + 1
  /\ SeedNextId \in Ids(todos)

\* C19: a step changes the size of the collection by at most one; it grows
\* only by a create that succeeds, which grows it by exactly one; it shrinks
\* only by a delete; and a delete on an empty collection leaves it empty.
C19_SizeChangesByAtMostOne ==
  [][ /\ Len(todos') - Len(todos) \in {-1, 0, 1}
      /\ (request'.op = "createTodo" /\ response'.kind = "todo")
           <=> (Len(todos') = Len(todos) + 1)
      /\ Len(todos') < Len(todos) => request'.op = "deleteTodo"
      /\ (request'.op = "deleteTodo" /\ todos = <<>>) => todos' = <<>> ]_vars

\* The three seed records were each removed by a delete that found them, and
\* the delete of "a" that came last found the collection empty and left it so.
C19_DeleteOnEmptyCollection ==
  /\ request.op = "deleteTodo"
  /\ request.id = <<"a">>
  /\ deletedIds = {1, 2, 3}
  /\ createLog = <<>>
  /\ todos = <<>>

====
